---- MODULE Spec2Model ----
(***************************************************************************)
(* Model of the peer address manager of mako (src/node/addrman.c):         *)
(* the global index, the fresh and used buckets with their totals, the     *)
(* ban table, and the persistent format (export / import).                 *)
(*                                                                         *)
(* Sizes are scaled: the code's 1024 fresh buckets, 256 used buckets,      *)
(* 64 entries per bucket and 8 references per entry are modelled by the    *)
(* small values of MAX_FRESH_BUCKETS, MAX_USED_BUCKETS, MAX_ENTRIES and    *)
(* MAX_REFS below; every formula is stated over those names.               *)
(***************************************************************************)
EXTENDS Integers, Sequences, FiniteSets, TLC

(***************************************************************************)
(* Program constants                                                       *)
(***************************************************************************)
SER_VERSION == 0
HORIZON_DAYS == 30
MAX_RETRIES == 3
MIN_FAIL_DAYS == 7
MAX_FAILURES == 10
\* scaled (the code: 8, 1024, 256, 64)
MAX_REFS == 2
MAX_FRESH_BUCKETS == 3
MAX_USED_BUCKETS == 2
MAX_ENTRIES == 2
\* man->ban_time as set by btc_addrman_create: 24 * 60 * 60
DEFAULT_BAN_TIME == 86400
\* man->network->magic, the magic of the manager's network (a stand-in value)
NETWORK_MAGIC == 11

(***************************************************************************)
(* Bounds of the model                                                     *)
(***************************************************************************)
\* the callers' peers have the IPs 1..MaxIp
MaxIp == 3
\* the bucket secret is drawn from 0..MaxKey
MaxKey == 1
\* the clock advances at most MaxTicks times
MaxTicks == 3
\* the IPs and the ports of the addresses that are banned
MaxBanIp == 2
MaxPort == 2
\* mark_attempt is called while every entry has attempts < MaxAttempts
MaxAttempts == 1
\* the first clock reading
Now0 == 1700000000

(***************************************************************************)
(* Addresses.  A btc_netaddr_t key is {raw, port}; raw is modelled by a    *)
(* small integer ip.  Peers are the addresses the callers pass to the      *)
(* store; SelfAddr is man->addr (127.0.0.1:port), SrcAddr a gossiping      *)
(* peer.  NoAddr stands for a NULL pointer argument.                       *)
(***************************************************************************)
NoAddr == [ip |-> 0, port |-> 0]
SelfAddr == [ip |-> 7, port |-> 1]
\* a source carries services of its own (src->services)
SrcAddr == [ip |-> 5, port |-> 1, services |-> 8]
\* the {raw, port} key of an address
KeyOf(a) == [ip |-> a.ip, port |-> a.port]
Addrs == {[ip |-> i, port |-> 1] : i \in 1..MaxIp}
Srcs == {NoAddr, SrcAddr}
Keys == 0..MaxKey

\* btc_netaddr_groupkey: the routing-class prefix of an address; modelled as
\* the ip without its lowest bit.
Group(a) == a.ip \div 2

\* btc_hash256 followed by btc_read32le: SHA-256 is not modelled; a fixed
\* mixing function of the same inputs stands for it.
RECURSIVE Mix(_, _)
Mix(h, xs) ==
  IF xs = << >> THEN h
  ELSE LET x == h + Head(xs) + 1
       IN Mix((x * x * 7 + 36) % 1009, Tail(xs))

Hash32(xs) == Mix(7, xs)

\* fresh_bucket: the index of the fresh bucket of an entry
FreshIndex(k, addr, src) ==
  LET hash32 == Hash32(<<k, Group(addr), Group(src)>>) % 64
      hash == Hash32(<<k, Group(src), hash32>>)
  IN hash % MAX_FRESH_BUCKETS

\* used_bucket: the index of the used bucket of an entry
UsedIndex(k, addr) ==
  LET hash32 == Hash32(<<k, addr.ip, addr.port>>) % 8
      hash == Hash32(<<k, Group(addr), hash32>>)
  IN hash % MAX_USED_BUCKETS

FreshBuckets == 0..(MAX_FRESH_BUCKETS - 1)
UsedBuckets == 0..(MAX_USED_BUCKETS - 1)

\* a merge that keeps the stored mask
BitOrLeft(a, b) == a

\* bitwise or of two service masks (uint64 |=)
RECURSIVE BitOr(_, _)
BitOr(a, b) ==
  IF a = 0 THEN b
  ELSE IF b = 0 THEN a
  ELSE (IF a % 2 = 1 \/ b % 2 = 1 THEN 1 ELSE 0) + 2 * BitOr(a \div 2, b \div 2)

(***************************************************************************)
(* btc_addrmap_t operations on a map modelled as a function                *)
(***************************************************************************)
MapHas(m, a) == a \in DOMAIN m
MapDel(m, a) == [x \in DOMAIN m \ {a} |-> m[x]]
\* btc_addrmap_put keeps an existing value (returns 0) and inserts otherwise
MapPut(m, a, v) == [x \in DOMAIN m \cup {a} |-> IF x \in DOMAIN m THEN m[x] ELSE v]
\* writing through the entry pointer held by the map
MapSet(m, a, v) == [x \in DOMAIN m \cup {a} |-> IF x = a THEN v ELSE m[x]]
EmptyMap == [x \in {} |-> 0]

\* btc_addrent_init
NewEntry(time, services, src) ==
  [time |-> time, services |-> services, src |-> src, attempts |-> 0,
   last_success |-> 0, last_attempt |-> 0, used |-> FALSE, ref_count |-> 0]

(***************************************************************************)
(* State of a btc_addrman_t                                                *)
(***************************************************************************)
VARIABLES
  map,          \* man->map: the global index, address -> entry
  fresh,        \* man->fresh: fresh bucket index -> set of addresses
  used,         \* man->used: used bucket index -> list of addresses
  total_fresh,  \* man->total_fresh
  total_used,   \* man->total_used
  key,          \* man->key
  needs_flush,  \* man->needs_flush
  banned,       \* man->banned: ip -> ban instant
  ban_time,     \* man->ban_time
  now,          \* the clock (btc_now, btc_timedata_now)
  ticks,        \* how often the clock has advanced
  last,         \* the last call and what it returned
  aborted,      \* a CHECK has failed: the process is gone
  get_pc,       \* btc_addrman_get: "idle", or "loop" inside its for (;;)
  buckets,      \* btc_addrman_get: the side it samples ("none" outside get)
  factor,       \* btc_addrman_get: the acceptance factor, in thousandths
  local,        \* man->local: address -> local record
  file,         \* man->file is set (not the empty string)
  disk          \* the fields of the file at man->file, or NoFile

getVars == <<get_pc, buckets, factor>>
fileVars == <<file, disk>>
\* what the calls on the store and on the ban table leave alone
restVars == <<getVars, local, fileVars>>

vars == <<map, fresh, used, total_fresh, total_used, key, needs_flush,
          banned, ban_time, now, ticks, last, aborted, getVars, local,
          fileVars>>

storeVars == <<map, fresh, used, total_fresh, total_used, key>>
banVars == <<banned, ban_time>>

\* the store part of the state as one value
Store == [map |-> map, fresh |-> fresh, used |-> used,
          total_fresh |-> total_fresh, total_used |-> total_used]

\* btc_addrman_create / btc_addrman_reset: no entries, empty buckets
EmptyStore == [map |-> EmptyMap,
               fresh |-> [b \in FreshBuckets |-> {}],
               used |-> [b \in UsedBuckets |-> << >>],
               total_fresh |-> 0, total_used |-> 0]

SetStore(st) ==
  /\ map' = st.map
  /\ fresh' = st.fresh
  /\ used' = st.used
  /\ total_fresh' = st.total_fresh
  /\ total_used' = st.total_used

\* the record of a call: the operation, its address argument, what it
\* returned, and the addresses it evicted from a full bucket
Called(op, addr, ret, ev) ==
  [op |-> op, addr |-> addr, ret |-> ret, evicted |-> ev, at |-> now]
Call(op, addr, ret) == Called(op, addr, ret, {})

\* factor = 1.0 of btc_addrman_get, in thousandths
FACTOR_ONE == 1000
\* no file at the path
NoFile == <<-1>>

\* the record of a call of add, with its src argument
AddCalled(addr, src, ret, ev) == Called("add", addr, ret, ev) @@ [src |-> src]

\* a failed CHECK aborts the process; nothing is observed afterwards
Abort(op) ==
  /\ aborted' = TRUE
  /\ last' = Call(op, NoAddr, "abort")
  /\ UNCHANGED <<storeVars, needs_flush, banVars, now, ticks, restVars>>

Init ==
  /\ map = EmptyMap
  /\ fresh = [b \in FreshBuckets |-> {}]
  /\ used = [b \in UsedBuckets |-> << >>]
  /\ total_fresh = 0
  /\ total_used = 0
  /\ key \in Keys
  /\ needs_flush = FALSE
  /\ banned = EmptyMap
  /\ ban_time = DEFAULT_BAN_TIME
  /\ now = Now0
  /\ ticks = 0
  /\ get_pc = "idle"
  /\ buckets = "none"
  /\ factor = FACTOR_ONE
  /\ local = EmptyMap
  /\ file = FALSE
  /\ disk = NoFile
  /\ last = Call("create", NoAddr, "none")
  /\ aborted = FALSE

(***************************************************************************)
(* is_stale, evict_fresh, evict_used                                       *)
(***************************************************************************)
IsStale(e, t) ==
  IF e.last_attempt # 0 /\ e.last_attempt >= t - 60 THEN FALSE
  ELSE IF e.time > t + 10 * 60 THEN TRUE
  ELSE IF e.time = 0 THEN TRUE
  ELSE IF t - e.time > HORIZON_DAYS * 24 * 60 * 60 THEN TRUE
  ELSE IF e.last_success = 0 /\ e.attempts >= MAX_RETRIES THEN TRUE
  ELSE IF t - e.last_success > MIN_FAIL_DAYS * 24 * 60 * 60
          /\ e.attempts >= MAX_FAILURES THEN TRUE
  ELSE FALSE

\* DropRef without the count: the destroyed entry stays in total_fresh
DropRefKeepTotal(st, b, a) ==
  LET e == st.map[a]
      gone == e.ref_count - 1 = 0
  IN [st EXCEPT
        !.fresh = [@ EXCEPT ![b] = @ \ {a}],
        !.map = IF gone THEN MapDel(@, a)
                ELSE MapSet(@, a, [e EXCEPT !.ref_count = @ - 1])]

\* DropRef without the deletion from the bucket: the bucket keeps the
\* address of an entry that may be destroyed
DropRefKeepMember(st, b, a) ==
  LET e == st.map[a]
      gone == e.ref_count - 1 = 0
  IN [st EXCEPT
        !.map = IF gone THEN MapDel(@, a)
                ELSE MapSet(@, a, [e EXCEPT !.ref_count = @ - 1]),
        !.total_fresh = IF gone THEN @ - 1 ELSE @]

\* DropRef that destroys the entry whatever references are left
DropRefDestroy(st, b, a) ==
  [st EXCEPT
     !.fresh = [@ EXCEPT ![b] = @ \ {a}],
     !.map = MapDel(@, a),
     !.total_fresh = @ - 1]

\* One removal of evict_fresh: delete the address from the bucket, drop one
\* reference, and when none is left delete the entry from the index, destroy
\* it and count it out of total_fresh.
DropRef(st, b, a) ==
  LET e == st.map[a]
      gone == e.ref_count - 1 = 0
  IN [st EXCEPT
        !.fresh = [@ EXCEPT ![b] = @ \ {a}],
        !.map = IF gone THEN MapDel(@, a)
                ELSE MapSet(@, a, [e EXCEPT !.ref_count = @ - 1]),
        !.total_fresh = IF gone THEN @ - 1 ELSE @]

RECURSIVE DropRefs(_, _, _)
DropRefs(st, b, as) ==
  IF as = {} THEN st
  ELSE LET a == CHOOSE x \in as : TRUE
       IN DropRefs(DropRef(st, b, a), b, as \ {a})

\* evict_fresh without the removal of the oldest entry: a bucket with no
\* stale entry stays full
EvictFreshStaleOnly(st, b, t) ==
  LET stale == {a \in st.fresh[b] : IsStale(st.map[a], t)}
  IN {DropRefs(st, b, stale)}

\* evict_fresh that leaves the stale entries in the bucket
EvictFreshOldestOnly(st, b, t) ==
  LET stale == {a \in st.fresh[b] : IsStale(st.map[a], t)}
      live == st.fresh[b] \ stale
      oldest == {a \in live : \A c \in live : st.map[a].time <= st.map[c].time}
  IN IF live = {} THEN {st}
     ELSE {DropRef(st, b, old) : old \in oldest}

\* evict_fresh: every stale entry of the bucket is removed, and then the
\* oldest of the others.  The bucket is iterated in the order of the hash
\* map, which the code does not fix: among entries of equal addr.time any
\* one may be met first, so each is a possible `old`.  The result is the
\* set of stores the call may leave.
EvictFresh(st, b, t) ==
  LET stale == {a \in st.fresh[b] : IsStale(st.map[a], t)}
      live == st.fresh[b] \ stale
      st1 == DropRefs(st, b, stale)
      oldest == {a \in live : \A c \in live : st.map[a].time <= st.map[c].time}
  IN IF live = {} THEN {st1}
     ELSE {DropRef(st1, b, old) : old \in oldest}

\* the position in a list of its first element with the smallest addr.time
RECURSIVE OldestPos(_, _, _, _)
OldestPos(m, list, i, best) ==
  IF i > Len(list) THEN best
  ELSE OldestPos(m, list, i + 1,
                 IF m[list[i]].time < m[list[best]].time THEN i ELSE best)

\* evict_used: the entry of the (non-empty) bucket with the smallest
\* addr.time, the first one in list order among equals
EvictUsed(m, list) == list[OldestPos(m, list, 1, 1)]

(***************************************************************************)
(* btc_addrman_add                                                         *)
(***************************************************************************)
\* the tail of add without the count of the new reference
AddInsertNoRef(st, addr, e, nf, src) ==
  LET b == FreshIndex(key, addr, e.src)
  IN IF addr \in st.fresh[b]
     THEN /\ SetStore(st)
          /\ last' = AddCalled(addr, src, FALSE, {})
          /\ needs_flush' = nf
     ELSE \E st1 \in (IF Cardinality(st.fresh[b]) >= MAX_ENTRIES
                      THEN EvictFresh(st, b, now) ELSE {st}) :
            /\ SetStore([st1 EXCEPT
                  !.fresh = [@ EXCEPT ![b] = @ \cup {addr}],
                  !.map = MapSet(@, addr, e)])
            /\ needs_flush' = TRUE
            /\ last' = AddCalled(addr, src, TRUE, st.fresh[b] \ st1.fresh[b])

\* the insertion with the bucket hashed from the announcing source
AddInsertBySrc(st, addr, e, nf, src) ==
  LET b == FreshIndex(key, addr, IF src = NoAddr THEN SelfAddr ELSE KeyOf(src))
  IN IF addr \in st.fresh[b]
     THEN /\ SetStore(st)
          /\ last' = AddCalled(addr, src, FALSE, {})
          /\ needs_flush' = nf
     ELSE \E st1 \in (IF Cardinality(st.fresh[b]) >= MAX_ENTRIES
                      THEN EvictFresh(st, b, now) ELSE {st}) :
            /\ SetStore([st1 EXCEPT
                  !.fresh = [@ EXCEPT ![b] = @ \cup {addr}],
                  !.map = MapSet(@, addr, [e EXCEPT !.ref_count = @ + 1])])
            /\ needs_flush' = TRUE
            /\ last' = AddCalled(addr, src, TRUE, st.fresh[b] \ st1.fresh[b])

\* The tail of btc_addrman_add (from the call of fresh_bucket): the entry e
\* of addr, known or just created, goes into its fresh bucket.  st is the
\* store and nf the needs_flush flag as the head of the function left them.
AddInsert(st, addr, e, nf, src) ==
  LET b == FreshIndex(key, addr, e.src)
  IN IF addr \in st.fresh[b]
     THEN /\ SetStore(st)
          /\ last' = AddCalled(addr, src, FALSE, {})
          /\ needs_flush' = nf
     ELSE \E st1 \in (IF Cardinality(st.fresh[b]) >= MAX_ENTRIES
                      THEN EvictFresh(st, b, now) ELSE {st}) :
            /\ SetStore([st1 EXCEPT
                  !.fresh = [@ EXCEPT ![b] = @ \cup {addr}],
                  !.map = MapSet(@, addr, [e EXCEPT !.ref_count = @ + 1])])
            /\ needs_flush' = TRUE
            /\ last' = AddCalled(addr, src, TRUE, st.fresh[b] \ st1.fresh[b])

\* add(addr, src): addr carries time atime and services asrv, src = NoAddr
\* is a NULL source, gate is the draw btc_uniform(factor) of the stochastic
\* test.  addr.port # 0 is the caller's duty (every address of Addrs).
Add(addr, atime, asrv, src, gate) ==
  /\ ~aborted
  /\ UNCHANGED <<key, banVars, now, ticks, restVars>>
  /\ IF MapHas(map, addr)
     THEN LET e0 == map[addr]
              penalty == IF src = NoAddr THEN 0 ELSE 2 * 60 * 60
              interval == IF now - atime < 24 * 60 * 60 THEN 60 * 60
                          ELSE 24 * 60 * 60
              e1 == [e0 EXCEPT !.services = BitOr(@, asrv)]
              upd == e1.time < atime - interval - penalty
              e == IF upd THEN [e1 EXCEPT !.time = atime] ELSE e1
              st == [Store EXCEPT !.map = MapSet(@, addr, e)]
              Return0 == /\ SetStore(st)
                         /\ needs_flush' = (needs_flush \/ upd)
                         /\ last' = AddCalled(addr, src, FALSE, {})
                         /\ UNCHANGED aborted
          IN IF e.time # 0 /\ atime <= e.time THEN Return0
             ELSE IF e.used THEN Return0
             ELSE IF ~(e.ref_count > 0) THEN Abort("add")
             ELSE IF e.ref_count = MAX_REFS THEN Return0
             ELSE IF ~(e.ref_count < MAX_REFS) THEN Abort("add")
             ELSE IF gate # 0 THEN Return0
             ELSE AddInsert(st, addr, e, needs_flush \/ upd, src)
                  /\ UNCHANGED aborted
     ELSE LET t == IF atime <= 100000000 \/ atime > now + 10 * 60
                   THEN now - 5 * 24 * 60 * 60 ELSE atime
              e == NewEntry(t, asrv, IF src = NoAddr THEN SelfAddr ELSE KeyOf(src))
              st == [Store EXCEPT !.total_fresh = @ + 1]
          IN AddInsert(st, addr, e, needs_flush, src) /\ UNCHANGED aborted

(***************************************************************************)
(* btc_addrman_remove, mark_attempt, mark_success, mark_ack, reset         *)
(***************************************************************************)
\* a list without its element at position i
SeqDel(list, i) == [j \in 1..(Len(list) - 1) |-> IF j < i THEN list[j] ELSE list[j + 1]]

\* the positions of an address in a list
Positions(list, a) == {i \in 1..Len(list) : list[i] = a}

\* the fresh buckets that hold an address
FreshOf(f, a) == {b \in FreshBuckets : a \in f[b]}

\* the used buckets whose list holds an address: walking prev from the
\* entry reaches the head of exactly the list the entry is linked into
UsedOf(u, a) == {b \in UsedBuckets : Positions(u[b], a) # {}}

Remove(addr) ==
  /\ ~aborted
  /\ UNCHANGED <<key, banVars, now, ticks, restVars, needs_flush>>
  /\ IF ~MapHas(map, addr)
     THEN /\ last' = Call("remove", addr, FALSE)
          /\ UNCHANGED <<map, fresh, used, total_fresh, total_used, aborted>>
     ELSE LET e == map[addr] IN
          IF e.used
          THEN IF e.ref_count # 0 \/ UsedOf(used, addr) = {}
               THEN Abort("remove")
               ELSE LET b == CHOOSE x \in UsedOf(used, addr) : TRUE
                        i == CHOOSE x \in Positions(used[b], addr) : TRUE
                    IN /\ used' = [used EXCEPT ![b] = SeqDel(@, i)]
                       /\ total_used' = total_used - 1
                       /\ map' = MapDel(map, addr)
                       /\ last' = Call("remove", addr, TRUE)
                       /\ UNCHANGED <<fresh, total_fresh, aborted>>
          ELSE IF e.ref_count - Cardinality(FreshOf(fresh, addr)) # 0
               THEN Abort("remove")
               ELSE /\ fresh' = [b \in FreshBuckets |-> fresh[b] \ {addr}]
                    /\ total_fresh' = total_fresh - 1
                    /\ map' = MapDel(map, addr)
                    /\ last' = Call("remove", addr, TRUE)
                    /\ UNCHANGED <<used, total_used, aborted>>

MarkAttempt(addr) ==
  /\ ~aborted
  /\ UNCHANGED <<fresh, used, total_fresh, total_used, key, banVars, now,
                 ticks, restVars, needs_flush, aborted>>
  /\ last' = Call("mark_attempt", addr, "none")
  /\ IF ~MapHas(map, addr) THEN UNCHANGED map
     ELSE map' = MapSet(map, addr, [map[addr] EXCEPT !.attempts = @ + 1,
                                                     !.last_attempt = now])

\* mark_success that also stamps last_success
MarkSuccessStamps(addr) ==
  /\ ~aborted
  /\ UNCHANGED <<fresh, used, total_fresh, total_used, key, banVars, now,
                 ticks, restVars, needs_flush, aborted>>
  /\ last' = Call("mark_success", addr, "none")
  /\ IF MapHas(map, addr)
     THEN map' = MapSet(map, addr,
                   [map[addr] EXCEPT !.last_success = now,
                                     !.time = IF now - @ > 20 * 60 THEN now ELSE @])
     ELSE UNCHANGED map

MarkSuccess(addr) ==
  /\ ~aborted
  /\ UNCHANGED <<fresh, used, total_fresh, total_used, key, banVars, now,
                 ticks, restVars, needs_flush, aborted>>
  /\ last' = Call("mark_success", addr, "none")
  /\ IF MapHas(map, addr) /\ now - map[addr].time > 20 * 60
     THEN map' = MapSet(map, addr, [map[addr] EXCEPT !.time = now])
     ELSE UNCHANGED map

\* a list with its element at position i replaced (btc_list_replace)
SeqReplace(list, i, a) == [list EXCEPT ![i] = a]

\* mark_ack that clears the used flag of an entry that is used already
MarkAckClearsUsed(addr, services) ==
  /\ ~aborted
  /\ UNCHANGED <<key, banVars, now, ticks, restVars, needs_flush>>
  /\ IF ~MapHas(map, addr)
     THEN /\ last' = Call("mark_ack", addr, "none")
          /\ UNCHANGED <<map, fresh, used, total_fresh, total_used, aborted>>
     ELSE LET e == [map[addr] EXCEPT !.services = BitOr(@, services),
                                     !.last_success = now,
                                     !.last_attempt = now,
                                     !.attempts = 0]
              olds == FreshOf(fresh, addr)
              fresh1 == [b \in FreshBuckets |-> fresh[b] \ {addr}]
              ub == UsedIndex(key, addr)
          IN IF e.used
             THEN /\ map' = MapSet(map, addr, [e EXCEPT !.used = FALSE])
                  /\ last' = Call("mark_ack", addr, "none")
                  /\ UNCHANGED <<fresh, used, total_fresh, total_used, aborted>>
             ELSE IF ~(e.ref_count > 0) \/ olds = {}
                     \/ e.ref_count - Cardinality(olds) # 0
             THEN Abort("mark_ack")
             ELSE IF Len(used[ub]) < MAX_ENTRIES
             THEN /\ map' = MapSet(map, addr, [e EXCEPT !.ref_count = 0,
                                                        !.used = TRUE])
                  /\ fresh' = fresh1
                  /\ used' = [used EXCEPT ![ub] = Append(@, addr)]
                  /\ total_fresh' = total_fresh - 1
                  /\ total_used' = total_used + 1
                  /\ last' = Call("mark_ack", addr, "none")
                  /\ UNCHANGED aborted
             ELSE LET evicted == EvictUsed(map, used[ub])
                      \* btc_list_replace puts addr where evicted was
                      pos == CHOOSE i \in Positions(used[ub], evicted) : TRUE
                      ev == map[evicted]
                      \* old: the last fresh bucket the entry was deleted from
                      old == CHOOSE b \in olds : \A c \in olds : c <= b
                      hashed == FreshIndex(key, evicted, ev.src)
                      fb == IF Cardinality(fresh1[hashed]) >= MAX_ENTRIES
                            THEN old ELSE hashed
                  IN IF ev.ref_count # 0
                     THEN Abort("mark_ack")
                     ELSE /\ map' = MapSet(
                               MapSet(map, addr, [e EXCEPT !.ref_count = 0,
                                                           !.used = TRUE]),
                               evicted, [ev EXCEPT !.used = FALSE,
                                                   !.ref_count = @ + 1])
                          /\ used' = [used EXCEPT ![ub] = SeqReplace(@, pos, addr)]
                          /\ fresh' = [fresh1 EXCEPT ![fb] = @ \cup {evicted}]
                          /\ total_fresh' = total_fresh - 1 + 1
                          /\ UNCHANGED total_used
                          /\ last' = Called("mark_ack", addr, "none", {evicted})
                          /\ UNCHANGED aborted

MarkAck(addr, services) ==
  /\ ~aborted
  /\ UNCHANGED <<key, banVars, now, ticks, restVars, needs_flush>>
  /\ IF ~MapHas(map, addr)
     THEN /\ last' = Call("mark_ack", addr, "none")
          /\ UNCHANGED <<map, fresh, used, total_fresh, total_used, aborted>>
     ELSE LET e == [map[addr] EXCEPT !.services = BitOr(@, services),
                                     !.last_success = now,
                                     !.last_attempt = now,
                                     !.attempts = 0]
              olds == FreshOf(fresh, addr)
              fresh1 == [b \in FreshBuckets |-> fresh[b] \ {addr}]
              ub == UsedIndex(key, addr)
          IN IF e.used
             THEN /\ map' = MapSet(map, addr, e)
                  /\ last' = Call("mark_ack", addr, "none")
                  /\ UNCHANGED <<fresh, used, total_fresh, total_used, aborted>>
             ELSE IF ~(e.ref_count > 0) \/ olds = {}
                     \/ e.ref_count - Cardinality(olds) # 0
             THEN Abort("mark_ack")
             ELSE IF Len(used[ub]) < MAX_ENTRIES
             THEN /\ map' = MapSet(map, addr, [e EXCEPT !.ref_count = 0,
                                                        !.used = TRUE])
                  /\ fresh' = fresh1
                  /\ used' = [used EXCEPT ![ub] = Append(@, addr)]
                  /\ total_fresh' = total_fresh - 1
                  /\ total_used' = total_used + 1
                  /\ last' = Call("mark_ack", addr, "none")
                  /\ UNCHANGED aborted
             ELSE LET evicted == EvictUsed(map, used[ub])
                      \* btc_list_replace puts addr where evicted was
                      pos == CHOOSE i \in Positions(used[ub], evicted) : TRUE
                      ev == map[evicted]
                      \* old: the last fresh bucket the entry was deleted from
                      old == CHOOSE b \in olds : \A c \in olds : c <= b
                      hashed == FreshIndex(key, evicted, ev.src)
                      fb == IF Cardinality(fresh1[hashed]) >= MAX_ENTRIES
                            THEN old ELSE hashed
                  IN IF ev.ref_count # 0
                     THEN Abort("mark_ack")
                     ELSE /\ map' = MapSet(
                               MapSet(map, addr, [e EXCEPT !.ref_count = 0,
                                                           !.used = TRUE]),
                               evicted, [ev EXCEPT !.used = FALSE,
                                                   !.ref_count = @ + 1])
                          /\ used' = [used EXCEPT ![ub] = SeqReplace(@, pos, addr)]
                          /\ fresh' = [fresh1 EXCEPT ![fb] = @ \cup {evicted}]
                          /\ total_fresh' = total_fresh - 1 + 1
                          /\ UNCHANGED total_used
                          /\ last' = Called("mark_ack", addr, "none", {evicted})
                          /\ UNCHANGED aborted

\* reset that empties the ban table as well
ResetClearsBans ==
  /\ ~aborted
  /\ SetStore(EmptyStore)
  /\ key' \in Keys
  /\ banned' = EmptyMap
  /\ last' = Call("reset", NoAddr, "none")
  /\ UNCHANGED <<ban_time, now, ticks, restVars, needs_flush, aborted>>

\* btc_addrman_reset (btc_addrman_close calls it): every entry destroyed,
\* every bucket emptied, a new random key
Reset ==
  /\ ~aborted
  /\ SetStore(EmptyStore)
  /\ key' \in Keys
  /\ last' = Call("reset", NoAddr, "none")
  /\ UNCHANGED <<banVars, now, ticks, restVars, needs_flush, aborted>>

(***************************************************************************)
(* btc_addrman_get                                                         *)
(***************************************************************************)
\* chance 1.0 of btc_addrent_chance, in ten-thousandths
CHANCE_ONE == 10000

\* c * pow(0.66, k), rounded down
RECURSIVE Pow66(_, _)
Pow66(c, k) == IF k = 0 THEN c ELSE Pow66((c * 66) \div 100, k - 1)

\* btc_addrent_chance, in ten-thousandths
Chance(e, t) ==
  LET attempts == IF e.attempts > 8 THEN 8 ELSE e.attempts
      c == IF t - e.last_attempt < 60 * 10 THEN CHANCE_ONE \div 100
           ELSE CHANCE_ONE
  IN Pow66(c, attempts)

\* the entries of bucket i of a side, fresh buckets f and used buckets u
MembersOf(f, u, side, i) ==
  IF side = "used" THEN {u[i][j] : j \in 1..Len(u[i])} ELSE f[i]

\* the entries of a bucket of the side that get samples
Members(side, i) == MembersOf(fresh, used, side, i)

\* the side btc_addrman_get samples, with the totals tf and tu and the draw
\* coin of btc_uniform(2): "none" when it returns NULL
GetSideOf(tf, tu, coin) ==
  IF tu > 0 /\ (tf = 0 \/ coin = 0) THEN "used"
  ELSE IF tf > 0 THEN "fresh"
  ELSE "none"

\* the bucket indices of a side
SideBuckets(side) == IF side = "used" THEN UsedBuckets ELSE FreshBuckets

\* btc_addrman_get up to its loop: coin is the draw btc_uniform(2).  With
\* no entry on either side it returns NULL.
Get(coin) ==
  /\ ~aborted
  /\ get_pc = "idle"
  /\ LET side == GetSideOf(total_fresh, total_used, coin)
     IN IF side = "none"
        THEN /\ last' = Call("get", NoAddr, "nil")
             /\ UNCHANGED getVars
        ELSE /\ get_pc' = "loop"
             /\ buckets' = side
             /\ factor' = FACTOR_ONE
             /\ UNCHANGED last
  /\ UNCHANGED <<storeVars, needs_flush, banVars, now, ticks, aborted, local,
                 fileVars>>

\* One iteration of the loop of btc_addrman_get: a bucket i is drawn; an
\* empty one is skipped (continue); otherwise an entry of it is drawn and
\* then num.  num < factor * chance * 2^30 can come out true for every
\* entry (num = 0), and false only while factor * chance < 1.
GetIterate ==
  /\ ~aborted
  /\ get_pc = "loop"
  /\ \E i \in SideBuckets(buckets) :
       IF Members(buckets, i) = {}
       THEN UNCHANGED <<getVars, last>>
       ELSE \E a \in Members(buckets, i), accept \in BOOLEAN :
              /\ ~accept => factor * Chance(map[a], now) < FACTOR_ONE * CHANCE_ONE
              /\ IF accept
                 THEN /\ get_pc' = "idle"
                      /\ buckets' = "none"
                      /\ factor' = FACTOR_ONE
                      /\ last' = Call("get", a, buckets)
                 ELSE /\ factor' = (factor * 12) \div 10
                      /\ UNCHANGED <<get_pc, buckets, last>>
  /\ UNCHANGED <<storeVars, needs_flush, banVars, now, ticks, aborted, local,
                 fileVars>>

\* btc_addrman_total
Total == total_fresh + total_used

\* the clock advances by d seconds, at most max times
Tick(d, max) ==
  /\ ~aborted
  /\ ticks < max
  /\ now' = now + d
  /\ ticks' = ticks + 1
  /\ UNCHANGED <<storeVars, banVars, needs_flush, last, aborted, restVars>>

(***************************************************************************)
(* The persistent format.  A file is the sequence of its fields, each a    *)
(* number: uint32 version, uint32 magic, the key, a size, the fields of    *)
(* each entry, and per bucket a size and that many address keys.           *)
(***************************************************************************)
\* btc_addrkey_write: raw[16] then the 2-byte port, as one number
PortBase == 65536
KeyTok(a) == a.ip * PortBase + a.port
\* btc_addrkey_read
TokKey(n) == [ip |-> n \div PortBase, port |-> n % PortBase]

\* btc_addrent_write: the seven persisted fields of an entry
EntryToks(a, e) ==
  <<KeyTok(a), e.services, e.time, KeyTok(e.src), e.attempts,
    e.last_success, e.last_attempt>>
ENTRY_FIELDS == 7

\* the elements of a set of addresses as a list.  The hash map fixes the
\* iteration order; the ascending key order stands for it.
RECURSIVE SetToSeq(_)
SetToSeq(S) ==
  IF S = {} THEN << >>
  ELSE LET a == CHOOSE x \in S : \A y \in S : KeyTok(x) <= KeyTok(y)
       IN <<a>> \o SetToSeq(S \ {a})

RECURSIVE Concat(_)
Concat(ss) == IF ss = << >> THEN << >> ELSE Head(ss) \o Concat(Tail(ss))

KeyToks(list) == [i \in 1..Len(list) |-> KeyTok(list[i])]

\* btc_addrman_write
Export(st, k) ==
  LET as == SetToSeq(DOMAIN st.map)
  IN <<SER_VERSION, NETWORK_MAGIC, k>>
     \o <<Len(as)>>
     \o Concat([i \in 1..Len(as) |-> EntryToks(as[i], st.map[as[i]])])
     \o Concat([i \in 1..MAX_FRESH_BUCKETS |->
                 LET l == SetToSeq(st.fresh[i - 1]) IN <<Len(l)>> \o KeyToks(l)])
     \o Concat([i \in 1..MAX_USED_BUCKETS |->
                 <<Len(st.used[i - 1])>> \o KeyToks(st.used[i - 1])])

\* A reader state: ok, the position of the next field, the store so far.
Failed == [ok |-> FALSE]

\* btc_addrman_read, the loop over the entries (lines 1223-1235)
RECURSIVE ReadEntries(_, _, _, _)
ReadEntries(f, pos, n, m) ==
  IF n = 0 THEN [ok |-> TRUE, pos |-> pos, map |-> m]
  ELSE IF pos + ENTRY_FIELDS - 1 > Len(f) THEN Failed
  ELSE LET a == TokKey(f[pos])
           e == [time |-> f[pos + 2], services |-> f[pos + 1],
                 src |-> TokKey(f[pos + 3]), attempts |-> f[pos + 4],
                 last_success |-> f[pos + 5], last_attempt |-> f[pos + 6],
                 used |-> FALSE, ref_count |-> 0]
       IN IF MapHas(m, a) THEN Failed
          ELSE ReadEntries(f, pos + ENTRY_FIELDS, n - 1, MapPut(m, a, e))

\* the keys of one fresh bucket (lines 1243-1261); r holds the reader state
RECURSIVE ReadFreshKeys(_, _, _, _)
ReadFreshKeys(f, r, b, n) ==
  IF n = 0 THEN r
  ELSE IF r.pos > Len(f) THEN Failed
  ELSE LET a == TokKey(f[r.pos]) IN
       IF ~MapHas(r.st.map, a) THEN Failed
       ELSE LET e == r.st.map[a]
                st1 == [r.st EXCEPT
                   !.total_fresh = IF e.ref_count = 0 THEN @ + 1 ELSE @,
                   !.map = MapSet(@, a, [e EXCEPT !.ref_count = @ + 1]),
                   !.fresh = [@ EXCEPT ![b] = @ \cup {a}]]
            IN ReadFreshKeys(f, [r EXCEPT !.pos = @ + 1, !.st = st1], b, n - 1)

\* the fresh buckets from bucket b on (lines 1237-1265)
RECURSIVE ReadFresh(_, _, _)
ReadFresh(f, r, b) ==
  IF b = MAX_FRESH_BUCKETS THEN r
  ELSE IF r.pos > Len(f) THEN Failed
  ELSE LET r1 == ReadFreshKeys(f, [r EXCEPT !.pos = @ + 1], b, f[r.pos])
       IN IF ~r1.ok THEN Failed
          ELSE IF Cardinality(r1.st.fresh[b]) > MAX_ENTRIES THEN Failed
          ELSE ReadFresh(f, r1, b + 1)

\* the keys of one used bucket without the test of ref_count and used: a
\* key of a fresh bucket, or a key listed before, is taken
RECURSIVE ReadUsedKeysUnchecked(_, _, _, _)
ReadUsedKeysUnchecked(f, r, b, n) ==
  IF n = 0 THEN r
  ELSE IF r.pos > Len(f) THEN Failed
  ELSE LET a == TokKey(f[r.pos]) IN
       IF ~MapHas(r.st.map, a) THEN Failed
       ELSE LET e == r.st.map[a]
                st1 == [r.st EXCEPT
                   !.total_used = @ + 1,
                   !.map = MapSet(@, a, [e EXCEPT !.used = TRUE]),
                   !.used = [@ EXCEPT ![b] = Append(@, a)]]
            IN ReadUsedKeysUnchecked(f, [r EXCEPT !.pos = @ + 1, !.st = st1],
                                     b, n - 1)

\* the keys of one used bucket (lines 1273-1290)
RECURSIVE ReadUsedKeys(_, _, _, _)
ReadUsedKeys(f, r, b, n) ==
  IF n = 0 THEN r
  ELSE IF r.pos > Len(f) THEN Failed
  ELSE LET a == TokKey(f[r.pos]) IN
       IF ~MapHas(r.st.map, a) THEN Failed
       ELSE LET e == r.st.map[a] IN
            IF e.ref_count # 0 \/ e.used THEN Failed
            ELSE LET st1 == [r.st EXCEPT
                        !.total_used = @ + 1,
                        !.map = MapSet(@, a, [e EXCEPT !.used = TRUE]),
                        !.used = [@ EXCEPT ![b] = Append(@, a)]]
                 IN ReadUsedKeys(f, [r EXCEPT !.pos = @ + 1, !.st = st1], b, n - 1)

\* the used buckets from bucket b on (lines 1267-1294)
RECURSIVE ReadUsed(_, _, _)
ReadUsed(f, r, b) ==
  IF b = MAX_USED_BUCKETS THEN r
  ELSE IF r.pos > Len(f) THEN Failed
  ELSE LET r1 == ReadUsedKeys(f, [r EXCEPT !.pos = @ + 1], b, f[r.pos])
       IN IF ~r1.ok THEN Failed
          ELSE IF Len(r1.st.used[b]) > MAX_ENTRIES THEN Failed
          ELSE ReadUsed(f, r1, b + 1)

\* the final sweep (lines 1299-1306)
SweepOk(m) == \A a \in DOMAIN m : ~(~m[a].used /\ m[a].ref_count = 0)

\* btc_addrman_read after its first reset, on the fields f: either Failed
\* or [ok, st, key], the store and key read
Read(f) ==
  IF Len(f) < 2 THEN Failed
  ELSE IF f[1] # SER_VERSION THEN Failed
  ELSE IF f[2] # NETWORK_MAGIC THEN Failed
  ELSE IF Len(f) < 4 THEN Failed
  ELSE LET re == ReadEntries(f, 5, f[4], EmptyMap) IN
       IF ~re.ok THEN Failed
       ELSE LET r0 == [ok |-> TRUE, pos |-> re.pos,
                       st |-> [EmptyStore EXCEPT !.map = re.map]]
                rf == ReadFresh(f, r0, 0)
            IN IF ~rf.ok THEN Failed
               ELSE LET ru == ReadUsed(f, rf, 0) IN
                    IF ~ru.ok THEN Failed
                    ELSE IF ru.pos # Len(f) + 1 THEN Failed
                    ELSE IF ~SweepOk(ru.st.map) THEN Failed
                    ELSE [ok |-> TRUE, st |-> ru.st, key |-> f[3]]

\* import without the reset on the failure path: the store stays as it was
ImportOutcomeNoReset(r) ==
  /\ ~aborted
  /\ IF r.ok
     THEN /\ SetStore(r.st)
          /\ key' = r.key
          /\ last' = Call("import", NoAddr, TRUE)
     ELSE /\ UNCHANGED storeVars
          /\ last' = Call("import", NoAddr, FALSE)
  /\ UNCHANGED <<banVars, now, ticks, restVars, needs_flush, aborted>>

\* btc_addrman_import with r what btc_addrman_read made of the bytes: the
\* store and key read, or after any failure a reset store (and a new key)
ImportOutcome(r) ==
  /\ ~aborted
  /\ IF r.ok
     THEN /\ SetStore(r.st)
          /\ key' = r.key
          /\ last' = Call("import", NoAddr, TRUE)
     ELSE /\ SetStore(EmptyStore)
          /\ key' \in Keys
          /\ last' = Call("import", NoAddr, FALSE)
  /\ UNCHANGED <<banVars, now, ticks, restVars, needs_flush, aborted>>

\* btc_addrman_import of the fields f
Import(f) == ImportOutcome(Read(f))

(***************************************************************************)
(* The ban table                                                           *)
(***************************************************************************)
BanKey(addr) == [addr EXCEPT !.port = 0]

\* btc_addrman_ban: the record is keyed by the address with port 0 and holds
\* the ban instant; btc_addrmap_put keeps a record that is already there
Ban(addr) ==
  /\ ~aborted
  /\ banned' = MapPut(banned, BanKey(addr), now)
  /\ last' = Call("ban", addr, "none")
  /\ UNCHANGED <<storeVars, needs_flush, ban_time, now, ticks, restVars, aborted>>

\* btc_addrman_unban
Unban(addr) ==
  /\ ~aborted
  /\ banned' = MapDel(banned, BanKey(addr))
  /\ last' = Call("unban", addr, "none")
  /\ UNCHANGED <<storeVars, needs_flush, ban_time, now, ticks, restVars, aborted>>

\* is_banned with the record expiring one second early (>= for >)
IsBannedEarly(addr) ==
  /\ ~aborted
  /\ IF ~MapHas(banned, BanKey(addr))
     THEN /\ last' = Call("is_banned", addr, FALSE)
          /\ UNCHANGED banned
     ELSE IF now >= banned[BanKey(addr)] + ban_time
     THEN /\ banned' = MapDel(banned, BanKey(addr))
          /\ last' = Call("is_banned", addr, FALSE)
     ELSE /\ last' = Call("is_banned", addr, TRUE)
          /\ UNCHANGED banned
  /\ UNCHANGED <<storeVars, needs_flush, ban_time, now, ticks, restVars, aborted>>

\* btc_addrman_is_banned
IsBanned(addr) ==
  /\ ~aborted
  /\ IF ~MapHas(banned, BanKey(addr))
     THEN /\ last' = Call("is_banned", addr, FALSE)
          /\ UNCHANGED banned
     ELSE IF now > banned[BanKey(addr)] + ban_time
     THEN /\ banned' = MapDel(banned, BanKey(addr))
          /\ last' = Call("is_banned", addr, FALSE)
     ELSE /\ last' = Call("is_banned", addr, TRUE)
          /\ UNCHANGED banned
  /\ UNCHANGED <<storeVars, needs_flush, ban_time, now, ticks, restVars, aborted>>

\* btc_addrman_clear_banned
ClearBanned ==
  /\ ~aborted
  /\ banned' = EmptyMap
  /\ last' = Call("clear_banned", NoAddr, "none")
  /\ UNCHANGED <<storeVars, needs_flush, ban_time, now, ticks, restVars, aborted>>

\* btc_addrman_set_bantime
SetBantime(t) ==
  /\ ~aborted
  /\ ban_time' = t
  /\ last' = Call("set_bantime", NoAddr, "none")
  /\ UNCHANGED <<storeVars, needs_flush, banned, now, ticks, restVars, aborted>>

(***************************************************************************)
(* Files offered to import                                                 *)
(***************************************************************************)
\* the addresses with ip 1..n, in that order
FirstAddrs(n) == [i \in 1..n |-> [ip |-> i, port |-> 1]]

\* a list of n empty lists
NoLists(n) == [i \in 1..n |-> << >>]

\* the entry record a hand-made file holds for an address
FileEntry == NewEntry(Now0 - 86400, 1, SelfAddr)

\* the file with the given entries, fresh bucket lists and used bucket lists
FileOf(as, fl, ul) ==
  <<SER_VERSION, NETWORK_MAGIC, 0>>
  \o <<Len(as)>>
  \o Concat([i \in 1..Len(as) |-> EntryToks(as[i], FileEntry)])
  \o Concat([i \in 1..Len(fl) |-> <<Len(fl[i])>> \o KeyToks(fl[i])])
  \o Concat([i \in 1..Len(ul) |-> <<Len(ul[i])>> \o KeyToks(ul[i])])

A1 == [ip |-> 1, port |-> 1]
A2 == [ip |-> 2, port |-> 1]
NoFresh == NoLists(MAX_FRESH_BUCKETS)
NoUsed == NoLists(MAX_USED_BUCKETS)

\* n addresses no caller names, with the IPs base + 1 .. base + n
Others(base, n) == [i \in 1..n |-> [ip |-> base + i, port |-> 1]]

\* A file of full buckets: A1 alone in a fresh bucket, its used bucket full
\* of A2 and others, and the hashed fresh bucket of A2 full of others.
FullFile ==
  LET u == UsedIndex(0, A1)
      f == FreshIndex(0, A2, SelfAddr)
      o == (f + 1) % MAX_FRESH_BUCKETS
      ul == <<A2>> \o Others(10, MAX_ENTRIES - 1)
      fl == Others(20, MAX_ENTRIES)
  IN FileOf(<<A1>> \o ul \o fl,
            [i \in 1..MAX_FRESH_BUCKETS |->
               IF i - 1 = f THEN fl ELSE IF i - 1 = o THEN <<A1>> ELSE << >>],
            [i \in 1..MAX_USED_BUCKETS |-> IF i - 1 = u THEN ul ELSE << >>])

\* A file whose one entry has addr.time 0 and is in a fresh bucket other
\* than the one it hashes to.
ZeroTimeFile ==
  LET f == FreshIndex(0, A1, SelfAddr)
      o == (f + 1) % MAX_FRESH_BUCKETS
  IN <<SER_VERSION, NETWORK_MAGIC, 0>>
     \o <<1>>
     \o EntryToks(A1, [FileEntry EXCEPT !.time = 0])
     \o Concat([i \in 1..MAX_FRESH_BUCKETS |->
                 IF i - 1 = o THEN <<1, KeyTok(A1)>> ELSE <<0>>])
     \o Concat([i \in 1..MAX_USED_BUCKETS |-> <<0>>])

\* byte strings that are no dump of any store
CraftedFiles ==
  { \* one key listed twice in one fresh bucket, the one it hashes to
    FileOf(<<A1>>, [NoFresh EXCEPT ![FreshIndex(0, A1, SelfAddr) + 1] = <<A1, A1>>],
           NoUsed),
    \* one key in MAX_REFS + 1 fresh buckets
    FileOf(<<A1>>, [i \in 1..MAX_FRESH_BUCKETS |->
                      IF i <= MAX_REFS + 1 THEN <<A1>> ELSE << >>], NoUsed),
    \* a fresh and a used entry, in buckets other than their hashed ones
    FileOf(<<A1, A2>>, [NoFresh EXCEPT ![MAX_FRESH_BUCKETS] = <<A1>>],
           [NoUsed EXCEPT ![MAX_USED_BUCKETS] = <<A2>>]),
    \* the same entry twice
    FileOf(<<A1, A1>>, [NoFresh EXCEPT ![1] = <<A1>>], NoUsed),
    \* a fresh bucket key, a used bucket key that is no entry
    FileOf(<<A1>>, [NoFresh EXCEPT ![1] = <<A1, A2>>], NoUsed),
    FileOf(<<A1>>, [NoFresh EXCEPT ![1] = <<A1>>], [NoUsed EXCEPT ![1] = <<A2>>]),
    \* a fresh bucket, a used bucket of MAX_ENTRIES + 1
    FileOf(FirstAddrs(MAX_ENTRIES + 1),
           [NoFresh EXCEPT ![1] = FirstAddrs(MAX_ENTRIES + 1)], NoUsed),
    FileOf(FirstAddrs(MAX_ENTRIES + 1), NoFresh,
           [NoUsed EXCEPT ![1] = FirstAddrs(MAX_ENTRIES + 1)]),
    \* a key in a fresh and in a used bucket
    FileOf(<<A1>>, [NoFresh EXCEPT ![1] = <<A1>>], [NoUsed EXCEPT ![1] = <<A1>>]),
    \* a key twice in the used buckets
    FileOf(<<A1>>, NoFresh, [NoUsed EXCEPT ![1] = <<A1, A1>>]),
    FileOf(<<A1>>, NoFresh, [i \in 1..MAX_USED_BUCKETS |-> <<A1>>]),
    \* an entry in no bucket
    FileOf(<<A1, A2>>, [NoFresh EXCEPT ![1] = <<A1>>], NoUsed),
    \* bytes after the last bucket
    FileOf(<<A1>>, [NoFresh EXCEPT ![1] = <<A1>>], NoUsed) \o <<0>>,
    \* no bytes at all
    << >> }

\* lengths a file of n fields is cut to: inside the header, inside the
\* entries, inside the buckets
Cuts(n) == {c \in 0..(n - 1) : c <= 5 \/ c = n \div 2 \/ c = n - 1}

\* a dump with a byte of its version or of its magic changed
TamperedHead(f) ==
  {[f EXCEPT ![1] = v] : v \in {SER_VERSION + 1, SER_VERSION + 256}}
  \cup {[f EXCEPT ![2] = v] : v \in {NETWORK_MAGIC + 1, NETWORK_MAGIC + 256}}

\* a dump with one field or its length changed
Tampered(f) ==
  TamperedHead(f)
  \cup {SubSeq(f, 1, n) : n \in Cuts(Len(f))}
  \cup {f \o <<0>>}

\* what btc_addrman_read makes of the hand-made files
CraftedReads == {Read(f) : f \in CraftedFiles}

(***************************************************************************)
(* The store: every operation on the index and the buckets                 *)
(***************************************************************************)
\* an instant beyond the horizon of is_stale
Old == now - (HORIZON_DAYS + 1) * 24 * 60 * 60
\* the addr.time values a caller announces: the present, a stale instant,
\* and one shortly after it (within the update interval of add)
AddTimes == {now, Old, Old + 10}
Services == {1}
\* the draws of btc_uniform(factor): 0 and any other value
Draws == {0, 1}

\* import of the dump of the present store
ImportExported == Import(Export(Store, key))

\* import of a dump with one version, magic or length changed
ImportTampered == \E f \in Tampered(Export(Store, key)) : Import(f)

\* import of a hand-made file
ImportCrafted == \E r \in CraftedReads : ImportOutcome(r)

\* mark_attempt, while the attempts counted stay below MaxAttempts
BoundedMarkAttempt(a) ==
  (\A x \in DOMAIN map : map[x].attempts < MaxAttempts) /\ MarkAttempt(a)

Next ==
  \/ \E a \in Addrs, t \in AddTimes, sv \in Services, g \in Draws :
       Add(a, t, sv, NoAddr, g)
  \/ \E a \in Addrs : Remove(a)
  \/ \E a \in Addrs : BoundedMarkAttempt(a)
  \/ \E a \in Addrs : MarkSuccess(a)
  \/ \E a \in Addrs, sv \in Services : MarkAck(a, sv)
  \/ Reset
  \/ ImportExported
  \/ ImportTampered
  \/ ImportCrafted

Spec == Init /\ [][Next]_vars

\* import of the file whose buckets are full
ImportFull == ImportOutcome(Read(FullFile))

\* The store with full buckets: import of FullFile, of a dump, of a
\* hand-made file, and the calls with addr.time the present.
NextFull ==
  \/ ImportFull
  \/ ImportExported
  \/ ImportCrafted
  \/ \E a \in Addrs, sv \in Services, g \in Draws : Add(a, now, sv, NoAddr, g)
  \/ \E a \in Addrs : Remove(a)
  \/ \E a \in Addrs : BoundedMarkAttempt(a)
  \/ \E a \in Addrs : MarkSuccess(a)
  \/ \E a \in Addrs, sv \in Services : MarkAck(a, sv)
  \/ Reset

SpecFull == Init /\ [][NextFull]_vars

\* no call of get is in its loop: the caller can make its next call
Idle == get_pc = "idle"

\* import of the file with the entry of addr.time 0
ImportZeroTime == ImportOutcome(Read(ZeroTimeFile))

\* add in full: addr.time the present or 0, addr.services other than the
\* services of the entries of the files, src NULL or given.
AddServices == {2}
NextAdd ==
  \/ \E a \in Addrs, t \in {0, now}, sv \in AddServices, g \in Draws,
        src \in Srcs :
       Add(a, t, sv, src, g)
  \/ \E a \in Addrs : Remove(a)
  \/ \E a \in Addrs, sv \in Services : MarkAck(a, sv)
  \/ Reset
  \/ ImportZeroTime
  \/ ImportCrafted

SpecAdd == Init /\ [][NextAdd]_vars

\* a file with one entry, listed twice in the fresh bucket it hashes to
DupKeyFile ==
  FileOf(<<A1>>, [NoFresh EXCEPT ![FreshIndex(0, A1, SelfAddr) + 1] = <<A1, A1>>],
         NoUsed)

ImportDupKey == Import(DupKeyFile)

\* get is synchronous: the other calls come between two calls of get
NextGet ==
  \/ \E a \in Addrs : Idle /\ Add(a, now, 1, NoAddr, 0)
  \/ Idle /\ BoundedMarkAttempt(A1)
  \/ \E a \in Addrs : Idle /\ MarkAck(a, 1)
  \/ Idle /\ ImportDupKey
  \/ \E coin \in Draws : Get(coin)
  \/ GetIterate

\* the draws of get are fair: an iteration that changes the state of the
\* loop (it met an entry) is not put off for ever
SpecGet == Init /\ [][NextGet]_vars /\ WF_vars(GetIterate)

\* The ban table under a moving clock: two ports of each of two IPs, a clock
\* that advances by a second or by the default ban time, and a ban time
\* set to a second or back to the default.
BanAddrs == {[ip |-> i, port |-> p] : i \in 1..MaxBanIp, p \in 1..MaxPort}
TickSteps == {1, DEFAULT_BAN_TIME}
BanTimes == {1, DEFAULT_BAN_TIME}

NextBan ==
  \/ \E a \in BanAddrs : Ban(a)
  \/ \E a \in BanAddrs : Unban(a)
  \/ \E a \in BanAddrs : IsBanned(a)
  \/ ClearBanned
  \/ \E t \in BanTimes : SetBantime(t)
  \/ \E d \in TickSteps : Tick(d, MaxTicks)

SpecBan == Init /\ [][NextBan]_vars

(***************************************************************************)
(* Properties                                                              *)
(***************************************************************************)
RECURSIVE SumLens(_, _)
SumLens(u, b) == IF b = MAX_USED_BUCKETS THEN 0 ELSE Len(u[b]) + SumLens(u, b + 1)

\* how often an address occurs in the used bucket lists
RECURSIVE UsedCount(_, _, _)
UsedCount(u, a, b) ==
  IF b = MAX_USED_BUCKETS THEN 0
  ELSE Cardinality(Positions(u[b], a)) + UsedCount(u, a, b + 1)

FreshEntries == {a \in DOMAIN map : ~map[a].used}
UsedEntries == {a \in DOMAIN map : map[a].used}

\* C1: total_fresh + total_used is the number of entries of the global
\* index, total_fresh is the number of index entries with used = FALSE, and
\* total_used is the sum of the lengths of the used bucket lists.
Accounting ==
  /\ total_fresh + total_used = Cardinality(DOMAIN map)
  /\ total_fresh = Cardinality(FreshEntries)
  /\ total_used = SumLens(used, 0)

\* C2: for every index entry with used = FALSE the number of fresh buckets
\* that hold its address is its ref_count, which is in 1..MAX_REFS.
FreshRefIntegrity ==
  \A a \in FreshEntries :
    /\ Cardinality(FreshOf(fresh, a)) = map[a].ref_count
    /\ map[a].ref_count >= 1
    /\ map[a].ref_count <= MAX_REFS

\* C3: every index entry with used = TRUE has ref_count 0, is in no fresh
\* bucket and occurs exactly once in the used bucket lists.
UsedExclusivity ==
  \A a \in UsedEntries :
    /\ map[a].ref_count = 0
    /\ FreshOf(fresh, a) = {}
    /\ UsedCount(used, a, 0) = 1

\* C4: every fresh bucket and every used bucket holds at most MAX_ENTRIES.
BucketBounds ==
  /\ \A b \in FreshBuckets : Cardinality(fresh[b]) <= MAX_ENTRIES
  /\ \A b \in UsedBuckets : Len(used[b]) <= MAX_ENTRIES

\* C5: every address held by a fresh bucket or a used bucket list is a key
\* of the global index (an entry leaves the index only when it is destroyed,
\* so no bucket holds a destroyed entry).
NoDanglingMember ==
  /\ \A b \in FreshBuckets : fresh[b] \subseteq DOMAIN map
  /\ \A b \in UsedBuckets : \A i \in 1..Len(used[b]) : used[b][i] \in DOMAIN map

\* add has just evicted from a full fresh bucket and destroyed an entry,
\* and the bucket is full again
AccountingWitness ==
  /\ last.op = "add" /\ last.evicted \ DOMAIN map # {}
  /\ total_fresh = MAX_ENTRIES

\* mark_ack has just replaced the oldest entry of a full used bucket
UsedExclusivityWitness ==
  /\ last.op = "mark_ack" /\ last.evicted # {}
  /\ map[last.addr].used
  /\ Len(used[UsedIndex(key, last.addr)]) = MAX_ENTRIES

\* mark_ack has just replaced the oldest entry of a full used bucket, the
\* fresh bucket the evicted entry hashes to is full and the entry is in
\* another one
BucketBoundsWitness ==
  /\ last.op = "mark_ack"
  /\ \E x \in last.evicted :
       LET hashed == FreshIndex(key, x, map[x].src)
       IN /\ x \notin fresh[hashed]
          /\ Cardinality(fresh[hashed]) = MAX_ENTRIES
          /\ FreshOf(fresh, x) # {}
  /\ Len(used[UsedIndex(key, last.addr)]) = MAX_ENTRIES

\* add has just evicted two entries from a full fresh bucket, a stale one
\* and the oldest of the others, and both are out of the index
NoDanglingMemberWitness ==
  /\ last.op = "add"
  /\ Cardinality(last.evicted) = 2
  /\ last.evicted \cap DOMAIN map = {}

(***************************************************************************)
(* Import and export                                                       *)
(***************************************************************************)
\* the store that import makes of a dump is the store dumped: the index
\* with the persisted fields of every entry, the fresh buckets, the used
\* bucket lists and the totals
SameStore(st1, st2) ==
  /\ DOMAIN st1.map = DOMAIN st2.map
  /\ \A a \in DOMAIN st1.map : EntryToks(a, st1.map[a]) = EntryToks(a, st2.map[a])
  /\ st1.fresh = st2.fresh
  /\ st1.used = st2.used
  /\ st1.total_fresh = st2.total_fresh
  /\ st1.total_used = st2.total_used

\* C6: import of the dump of any reachable store succeeds and gives the
\* same index, fresh buckets, used bucket lists, key and totals.
RoundTrip ==
  LET r == Read(Export(Store, key))
  IN r.ok /\ SameStore(r.st, Store) /\ r.key = key

\* C7: after an import that returned success the store satisfies every
\* store invariant: ref_count of a fresh entry is the number of fresh
\* buckets holding it and at most MAX_REFS, a used entry is in exactly one
\* used bucket with ref_count 0, the totals match the index.
ImportReconstructs ==
  (last.op = "import" /\ last.ret = TRUE) =>
    /\ total_fresh + total_used = Cardinality(DOMAIN map)
    /\ total_fresh = Cardinality(FreshEntries)
    /\ total_used = SumLens(used, 0)
    /\ \A a \in FreshEntries :
         /\ Cardinality(FreshOf(fresh, a)) = map[a].ref_count
         /\ map[a].ref_count \in 1..MAX_REFS
    /\ \A a \in UsedEntries :
         /\ map[a].ref_count = 0
         /\ FreshOf(fresh, a) = {}
         /\ UsedCount(used, a, 0) = 1
    /\ \A b \in FreshBuckets :
         Cardinality(fresh[b]) <= MAX_ENTRIES /\ fresh[b] \subseteq DOMAIN map
    /\ \A b \in UsedBuckets : Len(used[b]) <= MAX_ENTRIES

\* C8: after an import that returned failure the index and every bucket
\* are empty and both totals are 0; and import of the dump of the present
\* store with a byte of the version or of the magic changed fails.
ImportFailureEmpties ==
  /\ (last.op = "import" /\ last.ret = FALSE) =>
       /\ map = EmptyMap
       /\ \A b \in FreshBuckets : fresh[b] = {}
       /\ \A b \in UsedBuckets : used[b] = << >>
       /\ total_fresh = 0 /\ total_used = 0
  /\ \A f \in TamperedHead(Export(Store, key)) : ~Read(f).ok

\* import has just failed, after an add had put an entry into the store
ImportFailureWitness ==
  /\ last.op = "import" /\ last.ret = FALSE
  /\ needs_flush
  /\ Store = EmptyStore

(***************************************************************************)
(* The ban table                                                           *)
(***************************************************************************)
\* a step from a state whose last call was ban(a) to the return of
\* is_banned(b): nothing but the clock moved in between
BanThenIsBanned(a, b) ==
  /\ last.op = "ban" /\ last.addr = a
  /\ last'.op = "is_banned" /\ last'.addr = b

\* C9 as stated: after ban(a) at time t, is_banned(a) returns true at every
\* time now <= t + ban_duration and false at every later time, and the
\* expired record is gone after that call.
BanExpiryAsStated ==
  [][\A a \in BanAddrs :
       BanThenIsBanned(a, a) =>
         /\ last'.ret = (now <= last.at + ban_time)
         /\ (~last'.ret => ~MapHas(banned', BanKey(a)))]_vars

\* C9: after a ban(a) at time t that leaves the record of a's IP with the
\* instant t (no older record was in the table), is_banned(a) returns true
\* at every time now <= t + ban_duration and false at every later time; the
\* is_banned call that returns false leaves no record of the IP, and a ban
\* that follows it inserts a record with its own instant.
BanExpiry ==
  [][\A a \in BanAddrs :
       /\ (BanThenIsBanned(a, a) /\ banned[BanKey(a)] = last.at) =>
            /\ last'.ret = (now <= last.at + ban_time)
            /\ (~last'.ret => ~MapHas(banned', BanKey(a)))
       /\ (last.op = "is_banned" /\ last.addr = a /\ last.ret = FALSE
             /\ last'.op = "ban" /\ last'.addr = a) =>
            /\ MapHas(banned', BanKey(a))
            /\ banned'[BanKey(a)] = now]_vars

\* is_banned has just returned true at the last instant of a ban of the
\* default length
BanExpiryWitness ==
  /\ last.op = "is_banned" /\ last.ret = TRUE
  /\ ban_time = DEFAULT_BAN_TIME
  /\ MapHas(banned, BanKey(last.addr))
  /\ banned[BanKey(last.addr)] + ban_time = now

\* C10: the ban table is keyed by the IP alone and the first record wins:
\* right after ban(ip:p1), is_banned(ip:p2) is true and unban(ip:p2) leaves
\* no record of the IP, and a ban of an IP that has a record leaves the
\* record's instant as it was.
BanKeyedByIp ==
  [][\A a, b \in BanAddrs :
       a.ip = b.ip =>
         /\ (BanThenIsBanned(a, b) /\ now = last.at) => last'.ret = TRUE
         /\ (last.op = "ban" /\ last.addr = a
               /\ last'.op = "unban" /\ last'.addr = b) =>
              ~MapHas(banned', BanKey(a))
         /\ (MapHas(banned, BanKey(a)) /\ last'.op = "ban" /\ last'.addr = b
               /\ last' # last) =>
              banned' = banned]_vars

(***************************************************************************)
(* add                                                                     *)
(***************************************************************************)
\* a step that is the call add(a, ...)
AddStep(a) == last' # last /\ last'.op = "add" /\ last'.addr = a

\* the entries a call of get can return with the totals tf, tu and the
\* buckets f, u
GetResults(tf, tu, f, u) ==
  UNION {LET side == GetSideOf(tf, tu, coin)
         IN IF side = "none" THEN {}
            ELSE UNION {MembersOf(f, u, side, i) : i \in SideBuckets(side)}
         : coin \in Draws}

\* C11: add of an address that is not in the index returns true; then the
\* address is in the index as a fresh entry with ref_count 1, held by the
\* fresh bucket it hashes to and by no other; from the empty store
\* total_fresh and total() are 1 and that entry is what get returns.
InsertUnknown ==
  [][\A a \in Addrs :
       (AddStep(a) /\ ~MapHas(map, a)) =>
         /\ last'.ret = TRUE
         /\ MapHas(map', a)
         /\ ~map'[a].used
         /\ map'[a].ref_count = 1
         /\ {b \in FreshBuckets : a \in fresh'[b]} = {FreshIndex(key', a, map'[a].src)}
         /\ (map = EmptyMap =>
               /\ total_fresh' = 1
               /\ total_fresh' + total_used' = 1
               /\ GetResults(total_fresh', total_used', fresh', used') = {a})]_vars

\* add of an unknown address with a source has just evicted from the full
\* bucket it hashes to
InsertUnknownWitness ==
  /\ last.op = "add" /\ last.ret = TRUE
  /\ last.src = SrcAddr
  /\ last.evicted # {}
  /\ map[last.addr].ref_count = 1

\* the service bits of the masks in use
ServiceBits == {1, 2, 4, 8}

\* mask x has the bit b set
HasBit(x, b) == (x \div b) % 2 = 1

\* mask r has exactly the bits of x and of y
IsMerge(r, x, y) == \A b \in ServiceBits : HasBit(r, b) <=> (HasBit(x, b) \/ HasBit(y, b))

\* add(a, ...) returns on an address that is in the index
AddKnown(a, t, sv, src, g) ==
  /\ last'.op = "add" /\ last'.addr = a /\ last'.src = src
  /\ MapHas(map, a)
  /\ ~aborted'
  /\ Add(a, t, sv, src, g)

\* C12: add of an address that is in the index, with an addr.time that is
\* not greater than the stored addr.time, returns false and leaves total(),
\* the stored addr.time, the ref_count of the entry and the members of every
\* bucket as they were.
DuplicateRejected ==
  [][\A a \in Addrs, t \in {0, now}, sv \in AddServices, g \in Draws, src \in Srcs :
       (AddKnown(a, t, sv, src, g) /\ t <= map[a].time) =>
         /\ last'.ret = FALSE
         /\ total_fresh' + total_used' = total_fresh + total_used
         /\ MapHas(map', a)
         /\ map'[a].time = map[a].time
         /\ map'[a].ref_count = map[a].ref_count
         /\ fresh' = fresh
         /\ used' = used]_vars

\* C13 as stated: after add(addr, src) of an address that is in the index,
\* with a source, the stored services are the previous services OR-ed with
\* the services of the source.
ServicesMergeAsStated ==
  [][\A a \in Addrs, t \in {0, now}, sv \in AddServices, g \in Draws, src \in Srcs \ {NoAddr} :
       AddKnown(a, t, sv, src, g) =>
         MapHas(map', a) /\ IsMerge(map'[a].services, map[a].services, src.services)]_vars

\* C13: after add(addr, src) of an address that is in the index, with or
\* without a source, the stored services are the previous services OR-ed
\* with the services of the address passed (addr.services), also when add
\* returns false.
ServicesMerge ==
  [][\A a \in Addrs, t \in {0, now}, sv \in AddServices, g \in Draws, src \in Srcs :
       AddKnown(a, t, sv, src, g) =>
         MapHas(map', a) /\ IsMerge(map'[a].services, map[a].services, sv)]_vars

\* add with a source has returned false on a fresh entry that now carries
\* both the services it had and those of the address passed
ServicesMergeWitness ==
  /\ last.op = "add" /\ last.ret = FALSE
  /\ last.src = SrcAddr
  /\ MapHas(map, last.addr)
  /\ ~map[last.addr].used
  /\ \A sv \in AddServices : IsMerge(map[last.addr].services, 1, sv)

(***************************************************************************)
(* mark_ack                                                                *)
(***************************************************************************)
\* the call mark_ack(a, sv) on an address that is in the index
AckKnown(a, sv) ==
  /\ last'.op = "mark_ack"
  /\ MapHas(map, a)
  /\ MarkAck(a, sv)

\* entry e1 is entry e0 after the statistics update of mark_ack(_, sv)
AckStatistics(e1, e0, sv) ==
  /\ e1.attempts = 0
  /\ e1.last_success = now
  /\ e1.last_attempt = now
  /\ IsMerge(e1.services, e0.services, sv)

\* C14: mark_ack on a fresh entry whose used bucket is not full removes it
\* from every fresh bucket, appends it to the used bucket, sets used and
\* ref_count 0, moves one unit from total_fresh to total_used and updates
\* attempts, last_success, last_attempt and services; on a used entry it
\* changes those four fields only.
Promotion ==
  [][\A a \in Addrs, sv \in Services :
       AckKnown(a, sv) =>
         LET e == map[a]
             ub == UsedIndex(key, a)
         IN IF e.used
            THEN /\ MapHas(map', a)
                 /\ AckStatistics(map'[a], e, sv)
                 /\ map' = MapSet(map, a, [e EXCEPT !.services = map'[a].services,
                                                    !.attempts = 0,
                                                    !.last_success = now,
                                                    !.last_attempt = now])
                 /\ UNCHANGED <<fresh, used, total_fresh, total_used>>
            ELSE Len(used[ub]) < MAX_ENTRIES =>
                 /\ MapHas(map', a)
                 /\ AckStatistics(map'[a], e, sv)
                 /\ FreshOf(fresh', a) = {}
                 /\ used'[ub] = Append(used[ub], a)
                 /\ map'[a].used
                 /\ map'[a].ref_count = 0
                 /\ total_fresh' = total_fresh - 1
                 /\ total_used' = total_used + 1]_vars

(***************************************************************************)
(* evict_fresh in add                                                      *)
(***************************************************************************)
\* the call add(a, ...) has put a into bucket b, which was full
AddIntoFull(a, b) ==
  /\ last'.op = "add" /\ last'.addr = a /\ last'.ret = TRUE
  /\ last' # last
  /\ MapHas(map', a)
  /\ b = FreshIndex(key, a, map'[a].src)
  /\ a \notin fresh[b]
  /\ Cardinality(fresh[b]) >= MAX_ENTRIES

\* the stale entries of a fresh bucket
StaleIn(b) == {x \in fresh[b] : IsStale(map[x], now)}

\* the oldest entries among the entries of a fresh bucket that are not stale
OldestLiveIn(b) ==
  LET live == fresh[b] \ StaleIn(b)
  IN {x \in live : \A c \in live : map[x].time <= map[c].time}

\* C15 as stated: when add inserts into a full fresh bucket that has a
\* stale entry, only the stale entries are evicted.
StaleOnlyEvicted ==
  [][\A a \in Addrs, b \in FreshBuckets :
       (AddIntoFull(a, b) /\ StaleIn(b) # {}) =>
         fresh'[b] = (fresh[b] \ StaleIn(b)) \cup {a}]_vars

\* C15: when add inserts into a full fresh bucket, every stale entry of the
\* bucket is evicted and, when some entry of the bucket is not stale, the
\* oldest of those is evicted in the same add, whether or not a stale entry
\* was found.
StaleAndOldestEvicted ==
  [][\A a \in Addrs, b \in FreshBuckets :
       AddIntoFull(a, b) =>
         IF OldestLiveIn(b) = {}
         THEN fresh'[b] = {a}
         ELSE \E old \in OldestLiveIn(b) :
                fresh'[b] = (fresh[b] \ (StaleIn(b) \cup {old})) \cup {a}]_vars

\* an add with a source has emptied a full bucket of a stale entry and of
\* the entry that was not stale
StaleAndOldestWitness ==
  /\ last.op = "add" /\ last.ret = TRUE
  /\ last.src = SrcAddr
  /\ Cardinality(last.evicted) = MAX_ENTRIES
  /\ \E b \in FreshBuckets : fresh[b] = {last.addr}

(***************************************************************************)
(* local addresses: add_local, mark_local, get_local                       *)
(***************************************************************************)
\* man->services, BTC_NET_LOCAL_SERVICES
LOCAL_SERVICES == 1
\* mark_local is called while the score is below MaxScore
MaxScore == 1

\* btc_netaddr_is_routable: the unspecified address is not routable
Routable(a) == a.ip # 0

\* btc_netaddr_reachability of a destination from a source: the addresses
\* in use are of one network, so every destination is as reachable as any
\* other
Reach(src, dst) == 1

\* the addresses passed to add_local and the scores passed with them
LocalAddrs == {[ip |-> 0, port |-> 1], A1, A2}
Scores == {0}

\* btc_addrman_add_local
AddLocal(addr, score) ==
  /\ ~aborted
  /\ IF ~Routable(addr) \/ MapHas(local, addr)
     THEN /\ last' = Call("add_local", addr, FALSE)
          /\ UNCHANGED local
     ELSE /\ local' = MapPut(local, addr, [type |-> score, score |-> score,
                                           services |-> LOCAL_SERVICES, time |-> 0])
          /\ last' = Call("add_local", addr, TRUE)
  /\ UNCHANGED <<storeVars, needs_flush, banVars, now, ticks, getVars, fileVars, aborted>>

\* btc_addrman_mark_local
MarkLocal(addr) ==
  /\ ~aborted
  /\ IF ~MapHas(local, addr)
     THEN /\ last' = Call("mark_local", addr, FALSE)
          /\ UNCHANGED local
     ELSE /\ local' = MapSet(local, addr, [local[addr] EXCEPT !.score = @ + 1])
          /\ last' = Call("mark_local", addr, TRUE)
  /\ UNCHANGED <<storeVars, needs_flush, banVars, now, ticks, getVars, fileVars, aborted>>

BoundedMarkLocal(addr) ==
  /\ MapHas(local, addr) => local[addr].score < MaxScore
  /\ MarkLocal(addr)

\* The addresses btc_addrman_get_local can return from the table l (NoAddr
\* for NULL).  The table is iterated in the order of the hash map, which the
\* code does not fix: among the best entries any one may be met first.
GetLocalBest(l, src) ==
  LET cand == IF src = NoAddr THEN {a \in DOMAIN l : l[a].score > -1} ELSE DOMAIN l
      Better(a, c) ==
        IF src = NoAddr THEN l[a].score > l[c].score
        ELSE \/ Reach(src, a) > Reach(src, c)
             \/ Reach(src, a) = Reach(src, c) /\ l[a].score > l[c].score
      best == {a \in cand : \A c \in cand : ~Better(c, a)}
  IN IF cand = {} THEN {NoAddr} ELSE best

\* btc_addrman_get_local
GetLocal(src) ==
  /\ ~aborted
  /\ \E best \in GetLocalBest(local, src) :
       /\ last' = Call("get_local", src, best)
       /\ IF src # NoAddr /\ best # NoAddr
          THEN local' = MapSet(local, best, [local[best] EXCEPT !.time = now])
          ELSE UNCHANGED local
  /\ UNCHANGED <<storeVars, needs_flush, banVars, now, ticks, getVars, fileVars, aborted>>

\* what btc_addrman_is_banned returns for an address with the ban table bn
\* and the ban time bt
IsBannedValue(bn, bt, addr) ==
  MapHas(bn, BanKey(addr)) /\ ~(now > bn[BanKey(addr)] + bt)

\* btc_addrman_export of the store, then btc_addrman_create of a manager of
\* the same network and btc_addrman_import of the bytes into it; the model
\* goes on with the new manager
Restart ==
  /\ ~aborted
  /\ LET r == Read(Export(Store, key))
     IN IF r.ok
        THEN /\ SetStore(r.st)
             /\ key' = r.key
             /\ last' = Call("create+import", NoAddr, TRUE)
        ELSE /\ SetStore(EmptyStore)
             /\ key' \in Keys
             /\ last' = Call("create+import", NoAddr, FALSE)
  /\ banned' = EmptyMap
  /\ ban_time' = DEFAULT_BAN_TIME
  /\ local' = EmptyMap
  /\ needs_flush' = FALSE
  /\ file' = FALSE
  /\ get_pc' = "idle" /\ buckets' = "none" /\ factor' = FACTOR_ONE
  /\ UNCHANGED <<now, ticks, disk, aborted>>

\* the addresses of scenario S6: the entries, and the banned address D
PersistAddrs == {A1, A2}
D == [ip |-> 2, port |-> 2]

NextPersist ==
  \/ \E a \in PersistAddrs : Add(a, now, 1, NoAddr, 0)
  \/ \E a \in PersistAddrs, sv \in Services : MarkAck(a, sv)
  \/ Ban(D)
  \/ IsBanned(D)
  \/ \E a \in LocalAddrs, sc \in Scores : AddLocal(a, sc)
  \/ \E a \in LocalAddrs : BoundedMarkLocal(a)
  \/ \E src \in Srcs : GetLocal(src)
  \/ Restart

SpecPersist == Init /\ [][NextPersist]_vars

\* C16: after export and import of the bytes into a freshly created manager
\* of the same network, total_fresh and total_used are the same and
\* is_banned and get_local give the same results as in the original manager.
PersistenceS6 ==
  [][last'.op = "create+import" =>
       /\ total_fresh' = total_fresh
       /\ total_used' = total_used
       /\ IsBannedValue(banned', ban_time', D) = IsBannedValue(banned, ban_time, D)
       /\ \A src \in Srcs :
            GetLocalBest(local', src) = GetLocalBest(local, src)]_vars

(***************************************************************************)
(* get                                                                     *)
(***************************************************************************)
\* a call of get returns NULL exactly when both totals are 0
GetNilIffEmpty ==
  [][\A coin \in Draws :
       Get(coin) => ((get_pc' = "idle") <=> (total_fresh = 0 /\ total_used = 0))]_vars

\* what get returns from its loop is an entry of the index, of the side
\* sampled, and that side has a positive total
GetReturnsMember ==
  [][(get_pc = "loop" /\ get_pc' = "idle") =>
       /\ last'.op = "get"
       /\ MapHas(map', last'.addr)
       /\ last'.ret = "used" => (total_used > 0 /\ map'[last'.addr].used)
       /\ last'.ret = "fresh" => (total_fresh > 0 /\ ~map'[last'.addr].used)]_vars

\* a call of get that has entered its loop returns
GetReturns == (get_pc = "loop") ~> (get_pc = "idle")

\* C17: get returns nil if and only if total_fresh and total_used are 0;
\* otherwise, under fair draws, it returns in the end, and what it returns
\* is an entry of the index, from a used bucket only if total_used > 0 and
\* from a fresh bucket only if total_fresh > 0.
SelectionProgress == GetNilIffEmpty /\ GetReturnsMember /\ GetReturns

(***************************************************************************)
(* promotions of one entry                                                 *)
(***************************************************************************)
\* add, remove, mark_attempt, mark_success and mark_ack: every entry is
\* created by add
NextPromote ==
  \/ \E a \in Addrs, g \in Draws : Add(a, now, 1, NoAddr, g)
  \/ \E a \in Addrs : Remove(a)
  \/ \E a \in Addrs : BoundedMarkAttempt(a)
  \/ \E a \in Addrs : MarkSuccess(a)
  \/ \E a \in Addrs, sv \in Services : MarkAck(a, sv)

SpecPromote == Init /\ [][NextPromote]_vars

\* the entry of address a lives through the step
Lives(a) == MapHas(map, a) /\ MapHas(map', a)

\* The entry was promoted since it was created by add: btc_addrent_init
\* sets last_success to 0, only mark_ack writes it (the time of the call),
\* and mark_ack leaves the entry used.
WasPromoted(e) == e.last_success # 0

\* C18 as stated: between its creation by add and its destruction the used
\* flag of an entry changes from false to true at most once.
SinglePromotion ==
  [][\A a \in Addrs :
       (Lives(a) /\ ~map[a].used /\ map'[a].used) => ~WasPromoted(map[a])]_vars

\* C18: the used flag of an entry changes from false to true only in a
\* mark_ack call for that entry, and from true to false only when mark_ack
\* for another entry evicts it from its full used bucket; after such an
\* eviction mark_ack promotes the entry again.
PromotionByAck ==
  [][\A a \in Addrs :
       /\ (Lives(a) /\ ~map[a].used /\ map'[a].used) =>
            (last'.op = "mark_ack" /\ last'.addr = a)
       /\ (Lives(a) /\ map[a].used /\ ~map'[a].used) =>
            (last'.op = "mark_ack" /\ last'.addr # a /\ a \in last'.evicted)]_vars

\* an entry promoted before has been evicted from its used bucket and is
\* fresh again, with the time of its promotion in last_success
PromotionByAckWitness ==
  /\ last.op = "mark_ack"
  /\ \E a \in last.evicted :
       /\ MapHas(map, a)
       /\ ~map[a].used
       /\ map[a].ref_count = 1
       /\ WasPromoted(map[a])

(***************************************************************************)
(* open, flush                                                             *)
(***************************************************************************)
\* btc_addrman_destroy and btc_addrman_create: a new manager, with the file
\* system as the old one left it
Recreate ==
  /\ SetStore(EmptyStore)
  /\ key' \in Keys
  /\ needs_flush' = FALSE
  /\ banned' = EmptyMap
  /\ ban_time' = DEFAULT_BAN_TIME
  /\ local' = EmptyMap
  /\ file' = FALSE
  /\ get_pc' = "idle" /\ buckets' = "none" /\ factor' = FACTOR_ONE
  /\ last' = Call("create", NoAddr, "none")
  /\ aborted' = FALSE
  /\ UNCHANGED <<now, ticks, disk>>

\* btc_addrman_open as the first call on a manager, of a network without
\* seeds; path says whether a file name is passed.  A file that is read
\* and imported is the store; otherwise (no name, no file, or a file that
\* btc_addrman_import rejects, which resets the store) the address of the
\* manager itself is added to the empty store.
Open(path) ==
  /\ ~aborted
  /\ last.op = "create"
  /\ file' = path
  /\ LET r == IF path /\ disk # NoFile THEN Read(disk) ELSE Failed
         e == [NewEntry(now, LOCAL_SERVICES, SelfAddr) EXCEPT !.ref_count = 1]
     IN IF r.ok
        THEN /\ SetStore(r.st)
             /\ key' = r.key
             /\ UNCHANGED needs_flush
        ELSE /\ IF path /\ disk # NoFile THEN key' \in Keys ELSE UNCHANGED key
             /\ SetStore([EmptyStore EXCEPT
                  !.map = MapSet(@, SelfAddr, e),
                  !.fresh = [@ EXCEPT ![FreshIndex(key', SelfAddr, SelfAddr)] = {SelfAddr}],
                  !.total_fresh = 1])
             /\ needs_flush' = TRUE
  /\ last' = Call("open", NoAddr, TRUE)
  /\ UNCHANGED <<banVars, now, ticks, getVars, local, disk, aborted>>

\* btc_addrman_flush; ok says whether btc_fs_write_file succeeds.  A write
\* that fails leaves the file as it was.  flush is void: it returns
\* nothing.
Flush(ok) ==
  /\ ~aborted
  /\ IF needs_flush /\ file
     THEN /\ disk' = IF ok THEN Export(Store, key) ELSE disk
          /\ needs_flush' = FALSE
     ELSE UNCHANGED <<disk, needs_flush>>
  /\ last' = Call("flush", NoAddr, "none")
  /\ UNCHANGED <<storeVars, banVars, now, ticks, getVars, local, file, aborted>>

NextFlush ==
  \/ Recreate
  \/ \E path \in BOOLEAN : Open(path)
  \/ \E a \in PersistAddrs : Add(a, now, 1, NoAddr, 0)
  \/ \E a \in PersistAddrs : Remove(a)
  \/ \E a \in PersistAddrs, sv \in Services : MarkAck(a, sv)
  \/ \E ok \in BOOLEAN : Flush(ok)

SpecFlush == Init /\ [][NextFlush]_vars

\* C19: a flush of a dirty store whose file write fails reports the failure
\* and leaves the index, the buckets, the totals, the key and the dirty flag
\* as they were; a flush of a store that is not dirty or has no file path
\* writes nothing.
FlushFailure ==
  [][/\ (needs_flush /\ file /\ Flush(FALSE)) =>
          /\ last'.ret # "none"
          /\ UNCHANGED <<storeVars, needs_flush>>
     /\ \A ok \in BOOLEAN :
          (~(needs_flush /\ file) /\ Flush(ok)) => UNCHANGED disk]_vars

(***************************************************************************)
(* evict_used in mark_ack                                                  *)
(***************************************************************************)
\* C20: mark_ack for a fresh entry E whose used bucket U is full picks as
\* victim V the entry of U with the smallest addr.time, the first in list
\* order among equals; E takes the list position of V; V is fresh with
\* ref_count 1, in the fresh bucket it hashes to or, when that bucket is
\* full, in the last fresh bucket E was removed from; total_used and
\* total_fresh are as before the call.
UsedEviction ==
  [][\A a \in Addrs, sv \in Services :
       (AckKnown(a, sv) /\ ~map[a].used
          /\ Len(used[UsedIndex(key, a)]) >= MAX_ENTRIES) =>
         LET ub == UsedIndex(key, a)
             U == used[ub]
         IN \E p \in 1..Len(U) :
              LET V == U[p]
                  F == FreshIndex(key, V, map[V].src)
                  olds == FreshOf(fresh, a)
                  old == CHOOSE b \in olds : \A c \in olds : c <= b
              IN /\ \A q \in 1..Len(U) : map[V].time <= map[U[q]].time
                 /\ \A q \in 1..(p - 1) : map[V].time < map[U[q]].time
                 /\ used'[ub] = [U EXCEPT ![p] = a]
                 /\ MapHas(map', a) /\ map'[a].used
                 /\ MapHas(map', V)
                 /\ ~map'[V].used
                 /\ map'[V].ref_count = 1
                 /\ olds # {}
                 /\ FreshOf(fresh', V) =
                      {IF Cardinality(fresh[F] \ {a}) >= MAX_ENTRIES THEN old ELSE F}
                 /\ total_used' = total_used
                 /\ total_fresh' = total_fresh]_vars

(***************************************************************************)
(* evict_fresh: the reference protocol                                     *)
(***************************************************************************)
\* the entries add(a, ...) has taken out of bucket b
EvictedFrom(a, b) == fresh[b] \ (fresh'[b] \ {a})

\* C21: evict_fresh on a full bucket removes every stale entry and, when
\* some entry is not stale, the oldest of those; each removed entry loses
\* one reference and is deleted from the index and counted out of
\* total_fresh exactly when none is left; with no stale entry exactly one
\* entry is removed and the bucket is full again after the insert.
EvictFreshProtocol ==
  [][\A a \in Addrs, b \in FreshBuckets :
       AddIntoFull(a, b) =>
         LET ev == EvictedFrom(a, b)
             gone == {x \in ev : map[x].ref_count = 1}
         IN /\ StaleIn(b) \subseteq ev
            /\ ev \ StaleIn(b) \subseteq OldestLiveIn(b)
            /\ Cardinality(ev \ StaleIn(b)) = (IF OldestLiveIn(b) = {} THEN 0 ELSE 1)
            /\ \A x \in ev :
                 IF x \in gone THEN ~MapHas(map', x)
                 ELSE /\ MapHas(map', x)
                      /\ map'[x].ref_count = map[x].ref_count - 1
            /\ total_fresh' = total_fresh - Cardinality(gone)
                                + (IF MapHas(map, a) THEN 0 ELSE 1)
            /\ (StaleIn(b) = {} /\ Cardinality(fresh[b]) = MAX_ENTRIES) =>
                 (Cardinality(ev) = 1 /\ Cardinality(fresh'[b]) = MAX_ENTRIES)]_vars

\* an add has evicted an entry that keeps a reference and stays in the
\* index, from a bucket that is full again
EvictFreshProtocolWitness ==
  /\ last.op = "add" /\ last.ret = TRUE
  /\ \E x \in last.evicted : MapHas(map, x) /\ map[x].ref_count >= 1
  /\ \E b \in FreshBuckets : last.addr \in fresh[b] /\ Cardinality(fresh[b]) = MAX_ENTRIES

(***************************************************************************)
(* remove                                                                  *)
(***************************************************************************)
\* a list without the occurrences of an address, the others in their order
RECURSIVE Without(_, _)
Without(list, a) ==
  IF list = << >> THEN << >>
  ELSE IF Head(list) = a THEN Without(Tail(list), a)
  ELSE <<Head(list)>> \o Without(Tail(list), a)

\* C22: remove of an unknown address returns false and changes nothing;
\* remove of a known address returns true and leaves the address in neither
\* the index nor any bucket, with total_used one less if the entry was used
\* (the other entries of its list in their order) and total_fresh one less
\* otherwise, and with every other entry as it was.
RemoveContract ==
  [][\A a \in Addrs :
       (last'.op = "remove" /\ Remove(a)) =>
         IF ~MapHas(map, a)
         THEN /\ last'.ret = FALSE
              /\ UNCHANGED <<map, fresh, used, total_fresh, total_used>>
         ELSE /\ ~MapHas(map', a)
              /\ last'.ret = TRUE
              /\ map' = MapDel(map, a)
              /\ \A b \in FreshBuckets : fresh'[b] = fresh[b] \ {a}
              /\ \A b \in UsedBuckets : used'[b] = Without(used[b], a)
              /\ IF map[a].used
                 THEN total_used' = total_used - 1 /\ total_fresh' = total_fresh
                 ELSE total_fresh' = total_fresh - 1 /\ total_used' = total_used]_vars

(***************************************************************************)
(* mark_attempt and mark_success                                           *)
(***************************************************************************)
\* the step is the call op(a) that has returned
MarkStep(op, a) == last'.op = op /\ last'.addr = a /\ ~aborted'

\* no entry enters or leaves the index or a bucket, no entry changes its
\* used flag or its ref_count, and the totals stay
StructureKept ==
  /\ DOMAIN map' = DOMAIN map
  /\ \A x \in DOMAIN map : /\ map'[x].used = map[x].used
                           /\ map'[x].ref_count = map[x].ref_count
  /\ UNCHANGED <<fresh, used, total_fresh, total_used>>

\* the entries other than a are as they were
OthersKept(a) == \A x \in DOMAIN map \ {a} : map'[x] = map[x]

\* C23: on a known address mark_attempt only adds 1 to attempts and sets
\* last_attempt to now, and mark_success only sets addr.time to now when
\* now - addr.time > 1200; neither changes used, ref_count, the buckets or
\* the totals; mark_attempt, mark_success and mark_ack on an address that
\* is not in the index change nothing.
MarkFrame ==
  [][\A a \in Addrs :
       /\ (MarkStep("mark_attempt", a) /\ MapHas(map, a)) =>
            /\ StructureKept /\ OthersKept(a)
            /\ map'[a] = [map[a] EXCEPT !.attempts = map[a].attempts + 1,
                                        !.last_attempt = now]
       /\ (MarkStep("mark_success", a) /\ MapHas(map, a)) =>
            /\ StructureKept /\ OthersKept(a)
            /\ map'[a] = [map[a] EXCEPT !.time =
                            IF now - map[a].time > 1200 THEN now ELSE map[a].time]
       /\ \A op \in {"mark_attempt", "mark_success", "mark_ack"} :
            (MarkStep(op, a) /\ ~MapHas(map, a)) =>
               UNCHANGED <<storeVars, needs_flush, banVars, now, ticks, restVars>>]_vars

\* mark_success has returned for an entry that has an attempt counted and
\* carries the present time, next to an entry whose time is old enough to
\* be refreshed
MarkFrameWitness ==
  /\ last.op = "mark_success" /\ MapHas(map, last.addr)
  /\ map[last.addr].time = now /\ map[last.addr].attempts >= 1
  /\ map[last.addr].last_attempt = now
  /\ \E x \in DOMAIN map : now - map[x].time > 1200

(***************************************************************************)
(* The ban table and the address store                                     *)
(***************************************************************************)
\* btc_addrman_close
Close ==
  /\ ~aborted
  /\ SetStore(EmptyStore)
  /\ key' \in Keys
  /\ last' = Call("close", NoAddr, "none")
  /\ UNCHANGED <<banVars, now, ticks, restVars, needs_flush, aborted>>

\* the calls on the store (get is synchronous: they come between two calls
\* of get), the calls on the ban table for the IP of A1 under two ports,
\* and a local address
NextIndep ==
  \/ \E a \in PersistAddrs : Idle /\ Add(a, now, 1, NoAddr, 0)
  \/ \E a \in PersistAddrs : Idle /\ Remove(a)
  \/ Idle /\ BoundedMarkAttempt(A1)
  \/ \E a \in PersistAddrs : Idle /\ MarkSuccess(a)
  \/ \E a \in PersistAddrs : Idle /\ MarkAck(a, 1)
  \/ Idle /\ Reset
  \/ Idle /\ Close
  \/ Idle /\ ImportExported
  \/ Idle /\ ImportTampered
  \/ \E coin \in Draws : Get(coin)
  \/ GetIterate
  \/ \E p \in 1..MaxPort : Idle /\ Ban([A1 EXCEPT !.port = p])
  \/ \E p \in 1..MaxPort : Idle /\ Unban([A1 EXCEPT !.port = p])
  \/ \E p \in 1..MaxPort : Idle /\ IsBanned([A1 EXCEPT !.port = p])
  \/ Idle /\ ClearBanned
  \/ Idle /\ AddLocal(A1, 0)

SpecIndep == Init /\ [][NextIndep]_vars

BanOps == {"ban", "unban", "is_banned", "clear_banned"}
StoreOps == {"add", "remove", "get", "mark_attempt", "mark_success",
             "mark_ack", "reset", "close", "import"}

\* a step of btc_addrman_get: it enters the loop, iterates or returns
GetStep == get_pc = "loop" \/ get_pc' = "loop"

\* C24: ban, unban, is_banned and clear_banned never change the index, a
\* fresh or used bucket, total_fresh, total_used or the key; add, remove,
\* get, mark_attempt, mark_success, mark_ack, reset, close and import never
\* change the ban table or the local address table.
BanStoreIndependent ==
  [][/\ (~GetStep /\ last'.op \in BanOps) => UNCHANGED storeVars
     /\ (GetStep \/ last'.op \in StoreOps) => UNCHANGED <<banned, local>>]_vars

\* get has returned an entry whose IP is banned and whose ban has not
\* expired, with a local address in the table
BanStoreIndependentWitness ==
  /\ last.op = "get" /\ MapHas(map, last.addr)
  /\ IsBannedValue(banned, ban_time, last.addr)
  /\ local # EmptyMap

(***************************************************************************)
(* CHECK                                                                   *)
(***************************************************************************)
\* C25: no CHECK fails in a state reached from the empty store by add,
\* remove, mark_attempt, mark_success, mark_ack, reset and import: add
\* finds no known fresh entry with ref_count 0 or above MAX_REFS, remove and
\* mark_ack end their bucket scan with ref_count 0, mark_ack finds the entry
\* in a fresh bucket, remove finds the entry in its used bucket, and an
\* evicted used entry has ref_count 0.
NoCheckFails == aborted = FALSE

(***************************************************************************)
(* needs_flush                                                             *)
(***************************************************************************)
\* the calls that change what export writes
WritingOps == {"add", "remove", "mark_attempt", "mark_success", "mark_ack"}

\* C26: after an operation that changes state written by export (add,
\* mark_attempt, mark_success, mark_ack, remove, evictions) the store is
\* marked as needing a flush, so that the next flush with a file path set
\* writes the file; a flush of a store that is not marked writes nothing.
DirtyTracking ==
  [][/\ (last'.op \in WritingOps /\ storeVars' # storeVars) => needs_flush'
     /\ (needs_flush /\ file /\ Flush(TRUE)) => disk' = Export(Store, key)
     /\ \A ok \in BOOLEAN : (~needs_flush /\ Flush(ok)) => UNCHANGED disk]_vars

(***************************************************************************)
(* The fresh bucket of a known entry                                       *)
(***************************************************************************)
\* two more addresses, which fill a fresh bucket
Fillers == {[ip |-> i, port |-> 1] : i \in (MaxIp + 1)..(MaxIp + 2)}

\* A store built without import: entries are announced with an old time by
\* either source (the fillers by the peer), known entries are announced
\* again a little later by either source, which passes the time test of
\* add, and entries are acknowledged and removed.
NextRefs ==
  \/ \E a \in Addrs, src \in Srcs : ~MapHas(map, a) /\ Add(a, Old, 1, src, 0)
  \/ \E a \in Fillers : ~MapHas(map, a) /\ Add(a, Old, 1, SrcAddr, 0)
  \/ \E a \in Addrs, src \in Srcs : MapHas(map, a) /\ Add(a, Old + 10, 1, src, 0)
  \/ \E a \in Addrs : MarkAck(a, 1)
  \/ \E a \in Addrs : MapHas(map, a) /\ Remove(a)

SpecRefs == Init /\ [][NextRefs]_vars

\* fresh_bucket of the entry of a
HashedBucket(a) == FreshIndex(key, a, map[a].src)

\* add(a, ...) has returned and a was a known fresh entry
AddKnownFresh(a) ==
  /\ last'.op = "add" /\ last'.addr = a /\ ~aborted'
  /\ MapHas(map, a) /\ ~map[a].used

\* every ref_count is the number of fresh buckets of the entry and at most
\* 2, and an entry of ref_count 2 sits in its hashed bucket
RefsAtMostTwo ==
  \A a \in DOMAIN map :
    /\ map[a].ref_count <= 2
    /\ map[a].ref_count = Cardinality(FreshOf(fresh, a))
    /\ map[a].ref_count = 2 => a \in fresh[HashedBucket(a)]

====
